---- MODULE Spec2Model ----
(***************************************************************************)
(* Model of pdf_to_podcast.py: split_text (the episode segmenter), the     *)
(* episode file name, and convert_pdf (the run over one document).         *)
(*                                                                         *)
(* Strings are sequences of one-character strings.  A run of convert_pdf   *)
(* is a single thread of control whose position is pc.                     *)
(***************************************************************************)
EXTENDS Integers, Sequences, FiniteSets

VARIABLES
    text,               \* the document text (extract_text's result / split_text's full_text)
    minutes,            \* convert_pdf's minutes argument
    engine,             \* convert_pdf's engine argument
    out_dir,            \* what is at the out_dir path: "absent", "dir" or "file"
    pc,                 \* position of the run
    words_per_episode,  \* line 76 / split_text's parameter
    words,              \* split_text: words
    start,              \* split_text: start
    idx,                \* split_text: idx
    episodes,           \* split_text: episodes, then convert_pdf's list
    pos,                \* convert_pdf: position of the for loop in episodes (1-based)
    inflight,           \* chunk indices whose backend call has begun and not ended
    started,            \* chunk indices in the order their backend calls began
    completed,          \* <<idx, outcome>> in the order the backend calls ended
    files,              \* names of the files written in out_dir
    log,                \* lines inserted into log_widget
    msgs,               \* messagebox notifications shown
    split_called,       \* split_text has been entered
    mkdir_called,       \* out_dir.mkdir has been called
    name_idx,           \* file-name formatting: the pair of indices formatted
    name_out            \* file-name formatting: the pair of names, <<>> before

vars == <<text, minutes, engine, out_dir, pc, words_per_episode, words, start,
          idx, episodes, pos, inflight, started, completed, files, log, msgs,
          split_called, mkdir_called, name_idx, name_out>>

(***************************************************************************)
(* Bounds and program constants                                            *)
(***************************************************************************)
MaxLen == 5            \* longest exhaustively enumerated text, in characters
MaxW == 3              \* largest words_per_episode tried on the enumerated texts
MaxMinutes == 2        \* largest minutes per episode
MaxFullChunks == 2     \* generated texts hold up to this many full minutes of words (+1)
MaxSplitIter == 5      \* cap on the iterations of split_text's loop
MaxNameIdx == 101      \* largest chunk index whose file name is formatted

WordsPerMinute == 180

Letters == {"a", "b"}
Whitespace == {" ", "\n"}
Chars == Letters \cup Whitespace

KnownEngines == {"edge-tts", "gtts"}
Engines == KnownEngines \cup {"unknown-engine"}

NoTextMessage == "No text could be extracted from PDF."

(***************************************************************************)
(* String helpers: str.split(), str.strip(), " ".join(), slicing           *)
(***************************************************************************)
Min(a, b) == IF a < b THEN a ELSE b
Max(a, b) == IF a > b THEN a ELSE b

IsSpace(c) == c \in Whitespace

\* The element of a one-element set.  Binding a value as the element of a
\* set ({F(x) : x \in {e}}) has e evaluated once, where F(e) evaluates e at
\* every use of the parameter.
The(S) == CHOOSE x \in S : TRUE

\* The last position of the maximal run of non-whitespace that holds position p.
RECURSIVE WordEnd(_, _)
WordEnd(t, p) == IF p < Len(t) /\ ~IsSpace(t[p + 1]) THEN WordEnd(t, p + 1) ELSE p

\* The words (maximal runs of non-whitespace) that begin in lo..hi, in order.
RECURSIVE WordsFrom(_, _, _)
WordsFrom(t, lo, hi) ==
    IF lo > hi THEN <<>>
    ELSE IF lo = hi
         THEN IF ~IsSpace(t[lo]) /\ (lo = 1 \/ IsSpace(t[lo - 1]))
              THEN <<SubSeq(t, lo, WordEnd(t, lo))>>
              ELSE <<>>
         ELSE The({WordsFrom(t, lo, mid) \o WordsFrom(t, mid + 1, hi) :
                        mid \in {(lo + hi) \div 2}})

\* str.split(): the maximal runs of non-whitespace characters, in order.
split(t) == WordsFrom(t, 1, Len(t))

\* Number of leading / trailing whitespace characters.
RECURSIVE LeadingSpaces(_, _)
LeadingSpaces(t, k) ==
    IF k < Len(t) /\ IsSpace(t[k + 1]) THEN LeadingSpaces(t, k + 1) ELSE k

RECURSIVE TrailingSpaces(_, _)
TrailingSpaces(t, k) ==
    IF k < Len(t) /\ IsSpace(t[Len(t) - k]) THEN TrailingSpaces(t, k + 1) ELSE k

\* str.strip()
strip(t) ==
    IF LeadingSpaces(t, 0) = Len(t) THEN <<>>
    ELSE SubSeq(t, LeadingSpaces(t, 0) + 1, Len(t) - TrailingSpaces(t, 0))

\* " ".join(ws[lo..hi])
RECURSIVE JoinRange(_, _, _)
JoinRange(ws, lo, hi) ==
    IF lo > hi THEN <<>>
    ELSE IF lo = hi THEN ws[lo]
    ELSE The({JoinRange(ws, lo, mid) \o <<" ">> \o JoinRange(ws, mid + 1, hi) :
                   mid \in {(lo + hi) \div 2}})

join(ws) == The({JoinRange(w, 1, Len(w)) : w \in {ws}})

\* Python's s[i:j] on a list (0-based, negative indices count from the end,
\* out-of-range indices are clamped).
SliceIndex(n, i) == IF i < 0 THEN Max(n + i, 0) ELSE Min(i, n)
Slice(s, i, j) == SubSeq(s, SliceIndex(Len(s), i) + 1, SliceIndex(Len(s), j))

(***************************************************************************)
(* Inputs                                                                  *)
(***************************************************************************)
\* Every text of at most MaxLen characters.
SmallTexts == UNION {[1..n -> Chars] : n \in 0..MaxLen}

\* A text of n one-letter words after k whitespace characters; every word is
\* followed by a space, every third one by a newline instead.
GenText(n, k) ==
    [p \in 1..(k + 2 * n) |->
        IF p <= k THEN (IF p % 2 = 1 THEN " " ELSE "\n")
        ELSE LET q == p - k
                 i == (q + 1) \div 2
             IN  IF q % 2 = 1 THEN (IF i % 2 = 1 THEN "a" ELSE "b")
                 ELSE (IF i % 3 = 0 THEN "\n" ELSE " ")]

\* Word counts around the multiples of one minute of words.
GenWordCounts ==
    {0, 1, 200} \cup {k * WordsPerMinute + d : k \in 1..MaxFullChunks, d \in {0, 1}}

GenTexts == {GenText(n, k) : n \in GenWordCounts, k \in 0..2}

MinutesSet == (0 - 1)..MaxMinutes

\* The short texts a run is tried on: empty, blank, and a few words.
SmallTextsOfRun ==
    {<<>>, <<" ">>, <<"\n", " ">>, <<"a">>, <<" ", "a", "b", "\n", "b">>}

(***************************************************************************)
(* split_text                                                              *)
(***************************************************************************)
\* Mutant of ChunkEnd: the chunk takes one word too many.
ChunkEnd_OffByOne(n, s, w) == Min(n, s + w + 1)

\* line 59: end = min(len(words), start + words_per_episode)
ChunkEnd(n, s, w) == Min(n, s + w)

\* Mutant of EpisodeText: the slice begins one word late.
EpisodeText_DropsFirstWord(ws, s, e) == join(Slice(ws, s + 1, e))

\* line 60: episode_text = " ".join(words[start:end])
EpisodeText(ws, s, e) == join(Slice(ws, s, e))

\* line 57: idx = 1
FirstIdx == 1

\* Mutant of NextIdx: an index is skipped.
NextIdx_Skips(i) == i + 2

\* line 63: idx += 1
NextIdx(i) == i + 1

\* lines 53-57: split_text is entered.
SplitEnter ==
    /\ pc = "call_split"
    /\ words' = split(text)
    /\ start' = 0
    /\ episodes' = <<>>
    /\ idx' = FirstIdx
    /\ split_called' = TRUE
    /\ pc' = "split"
    /\ UNCHANGED <<text, minutes, engine, out_dir, words_per_episode, pos, inflight,
                   started, completed, files, log, msgs, mkdir_called, name_idx, name_out>>

\* lines 58-63: one iteration of the while loop.  The loop does not end when
\* words_per_episode <= 0; the model follows it for MaxSplitIter iterations.
SplitStep ==
    /\ pc = "split"
    /\ start < Len(words)
    /\ idx <= MaxSplitIter
    /\ LET end == ChunkEnd(Len(words), start, words_per_episode)
       IN  /\ episodes' = Append(episodes, <<idx, EpisodeText(words, start, end)>>)
           /\ start' = end
    /\ idx' = NextIdx(idx)
    /\ UNCHANGED <<text, minutes, engine, out_dir, pc, words_per_episode, words, pos,
                   inflight, started, completed, files, log, msgs, split_called,
                   mkdir_called, name_idx, name_out>>

\* lines 58, 64: the loop condition is false, split_text returns episodes.
SplitReturn ==
    /\ pc = "split"
    /\ ~(start < Len(words))
    /\ pc' = "mkdir"
    /\ UNCHANGED <<text, minutes, engine, out_dir, words_per_episode, words, start, idx,
                   episodes, pos, inflight, started, completed, files, log, msgs,
                   split_called, mkdir_called, name_idx, name_out>>

(***************************************************************************)
(* The episode file name, f"episode_{idx:02d}.mp3"                         *)
(***************************************************************************)
DigitChar(d) == <<"0", "1", "2", "3", "4", "5", "6", "7", "8", "9">>[d + 1]

\* The decimal digits of n >= 0.
RECURSIVE Decimal(_)
Decimal(n) == IF n < 10 THEN <<DigitChar(n)>> ELSE Decimal(n \div 10) \o <<DigitChar(n % 10)>>

\* format(n, "02d") for n >= 0: zero-padded on the left to at least two characters.
Format02d(n) == LET d == Decimal(n) IN IF Len(d) < 2 THEN <<"0">> \o d ELSE d

\* Mutant of OutFileName: the index is not padded.
OutFileName_NoPadding(i) == <<"episode_">> \o Decimal(i) \o <<".mp3">>

\* line 83: the name part of out_file
OutFileName(i) == <<"episode_">> \o Format02d(i) \o <<".mp3">>

\* The names of two chunk indices are formatted.
FormatNames ==
    /\ pc = "format"
    /\ name_out' = <<OutFileName(name_idx[1]), OutFileName(name_idx[2])>>
    /\ pc' = "formatted"
    /\ UNCHANGED <<text, minutes, engine, out_dir, words_per_episode, words, start, idx,
                   episodes, pos, inflight, started, completed, files, log, msgs,
                   split_called, mkdir_called, name_idx>>

(***************************************************************************)
(* convert_pdf                                                             *)
(***************************************************************************)
\* Mutant of IsBlankText: the text is not stripped before the test.
IsBlankText_NoStrip(t) == t = <<>>

\* line 72: not text.strip()
IsBlankText(t) == strip(t) = <<>>

\* line 97: the except clause shows the error and convert_pdf returns.
ShowError(reason) ==
    /\ msgs' = Append(msgs, <<"showerror", reason>>)
    /\ pc' = "done"

\* lines 70-71: the run is logged and extract_text returns the text.
ReadPdf ==
    /\ pc = "start"
    /\ log' = Append(log, <<"[info] Reading">>)
    /\ pc' = "check"
    /\ UNCHANGED <<text, minutes, engine, out_dir, words_per_episode, words, start, idx,
                   episodes, pos, inflight, started, completed, files, msgs,
                   split_called, mkdir_called, name_idx, name_out>>

\* lines 70-71, 96-97: extract_text (PdfReader) raises.
ReadPdfRaises ==
    /\ pc = "start"
    /\ log' = Append(log, <<"[info] Reading">>)
    /\ ShowError("extract_text failed")
    /\ UNCHANGED <<text, minutes, engine, out_dir, words_per_episode, words, start, idx,
                   episodes, pos, inflight, started, completed, files,
                   split_called, mkdir_called, name_idx, name_out>>

\* Mutant of NoText: the error is shown and the run goes on.
NoText_NoReturn ==
    /\ pc = "check"
    /\ IsBlankText(text)
    /\ msgs' = Append(msgs, <<"showerror", NoTextMessage>>)
    /\ words_per_episode' = minutes * WordsPerMinute
    /\ pc' = "call_split"
    /\ UNCHANGED <<text, minutes, engine, out_dir, words, start, idx,
                   episodes, pos, inflight, started, completed, files, log,
                   split_called, mkdir_called, name_idx, name_out>>

\* lines 72-74: no text, the error is shown and convert_pdf returns.
NoText ==
    /\ pc = "check"
    /\ IsBlankText(text)
    /\ msgs' = Append(msgs, <<"showerror", NoTextMessage>>)
    /\ pc' = "done"
    /\ UNCHANGED <<text, minutes, engine, out_dir, words_per_episode, words, start, idx,
                   episodes, pos, inflight, started, completed, files, log,
                   split_called, mkdir_called, name_idx, name_out>>

\* lines 72, 76: there is text, words_per_episode = minutes * 180.
ComputeWordsPerEpisode ==
    /\ pc = "check"
    /\ ~IsBlankText(text)
    /\ words_per_episode' = minutes * WordsPerMinute
    /\ pc' = "call_split"
    /\ UNCHANGED <<text, minutes, engine, out_dir, words, start, idx,
                   episodes, pos, inflight, started, completed, files, log, msgs,
                   split_called, mkdir_called, name_idx, name_out>>

\* lines 79-80: out_dir.mkdir(exist_ok=True); it raises FileExistsError when
\* the path is a file.
MkDir ==
    /\ pc = "mkdir"
    /\ mkdir_called' = TRUE
    /\ IF out_dir = "file"
       THEN /\ ShowError("mkdir failed")
            /\ UNCHANGED <<out_dir, pos>>
       ELSE /\ out_dir' = "dir"
            /\ pos' = 1
            /\ pc' = "loop"
            /\ UNCHANGED msgs
    /\ UNCHANGED <<text, minutes, engine, words_per_episode, words, start, idx,
                   episodes, inflight, started, completed, files, log,
                   split_called, name_idx, name_out>>

\* Mutant of BeginChunk: the backend call is begun and not waited for.
BeginChunk_NoWait ==
    /\ pc = "loop"
    /\ pos <= Len(episodes)
    /\ log' = Append(log, <<"[tts] Generating", OutFileName(episodes[pos][1])>>)
    /\ inflight' = inflight \cup {episodes[pos][1]}
    /\ started' = Append(started, episodes[pos][1])
    /\ pos' = pos + 1
    /\ UNCHANGED <<text, minutes, engine, out_dir, pc, words_per_episode, words, start,
                   idx, episodes, completed, files, msgs, split_called, mkdir_called,
                   name_idx, name_out>>

\* lines 82-93: the next episode is taken, its line is logged, and the engine
\* is dispatched on: a known engine's call begins and the run waits for it
\* (asyncio.run and tts.save both block); an unknown engine is logged.
BeginChunk ==
    /\ pc = "loop"
    /\ pos <= Len(episodes)
    /\ LET i == episodes[pos][1]
       IN  IF engine \in KnownEngines
           THEN /\ log' = Append(log, <<"[tts] Generating", OutFileName(i)>>)
                /\ inflight' = inflight \cup {i}
                /\ started' = Append(started, i)
                /\ pc' = "tts"
                /\ pos' = pos
           ELSE /\ log' = Append(Append(log, <<"[tts] Generating", OutFileName(i)>>),
                                 <<"[error] Unknown engine", engine>>)
                /\ pos' = pos + 1
                /\ UNCHANGED <<inflight, started, pc>>
    /\ UNCHANGED <<text, minutes, engine, out_dir, words_per_episode, words, start, idx,
                   episodes, completed, files, msgs, split_called, mkdir_called,
                   name_idx, name_out>>

\* lines 89, 91: the backend call returns, the file is saved.
TtsReturns ==
    /\ pc = "tts"
    /\ \E i \in inflight :
        /\ inflight' = inflight \ {i}
        /\ completed' = Append(completed, <<i, "succeeded">>)
        /\ files' = files \cup {OutFileName(i)}
    /\ pos' = pos + 1
    /\ pc' = "loop"
    /\ UNCHANGED <<text, minutes, engine, out_dir, words_per_episode, words, start, idx,
                   episodes, started, log, msgs, split_called, mkdir_called,
                   name_idx, name_out>>

\* lines 89, 91, 96-97: the backend call raises; the exception leaves the for
\* loop and reaches the except clause.
TtsRaises ==
    /\ pc = "tts"
    /\ \E i \in inflight :
        /\ inflight' = inflight \ {i}
        /\ completed' = Append(completed, <<i, "failed">>)
    /\ ShowError("synthesis failed")
    /\ UNCHANGED <<text, minutes, engine, out_dir, words_per_episode, words, start, idx,
                   episodes, pos, started, files, log, split_called, mkdir_called,
                   name_idx, name_out>>

\* line 95: the loop is over, the summary is shown.
Finish ==
    /\ pc = "loop"
    /\ pos > Len(episodes)
    /\ msgs' = Append(msgs, <<"showinfo", Len(episodes), "out_dir">>)
    /\ pc' = "done"
    /\ UNCHANGED <<text, minutes, engine, out_dir, words_per_episode, words, start, idx,
                   episodes, pos, inflight, started, completed, files, log,
                   split_called, mkdir_called, name_idx, name_out>>

(***************************************************************************)
(* Specifications                                                          *)
(***************************************************************************)
\* What no run has touched yet.
Untouched ==
    /\ words = <<>>
    /\ start = 0
    /\ idx = FirstIdx
    /\ episodes = <<>>
    /\ pos = 0
    /\ inflight = {}
    /\ started = <<>>
    /\ completed = <<>>
    /\ files = {}
    /\ log = <<>>
    /\ msgs = <<>>
    /\ split_called = FALSE
    /\ mkdir_called = FALSE

\* One run of convert_pdf, from its call.
Init ==
    /\ text \in SmallTextsOfRun \cup GenTexts
    /\ minutes \in MinutesSet
    /\ engine \in Engines
    /\ out_dir \in {"absent", "dir", "file"}
    /\ pc = "start"
    /\ words_per_episode = 0
    /\ name_idx = <<1, 1>>
    /\ name_out = <<>>
    /\ Untouched

Next ==
    \/ ReadPdf
    \/ ReadPdfRaises
    \/ NoText
    \/ ComputeWordsPerEpisode
    \/ SplitEnter
    \/ SplitStep
    \/ SplitReturn
    \/ MkDir
    \/ BeginChunk
    \/ TtsReturns
    \/ TtsRaises
    \/ Finish

Spec == Init /\ [][Next]_vars

\* The run is executed: a step that can be taken is taken, and every backend
\* call returns or raises.
FairSpec == Init /\ [][Next]_vars /\ WF_vars(Next)

\* split_text alone, called with a positive words_per_episode.
SplitInit ==
    /\ \/ text \in SmallTexts /\ words_per_episode \in 1..MaxW
       \/ /\ text \in GenTexts
          /\ words_per_episode \in {m * WordsPerMinute : m \in 1..MaxMinutes}
    /\ minutes = 0
    /\ engine = "gtts"
    /\ out_dir = "absent"
    /\ pc = "call_split"
    /\ name_idx = <<1, 1>>
    /\ name_out = <<>>
    /\ Untouched

SplitNext == SplitEnter \/ SplitStep \/ SplitReturn

SplitSpec == SplitInit /\ [][SplitNext]_vars

\* The file name of a chunk index alone.
NameInit ==
    /\ name_idx \in (1..MaxNameIdx) \X (1..MaxNameIdx)
    /\ name_out = <<>>
    /\ text = <<>>
    /\ minutes = 0
    /\ engine = "gtts"
    /\ out_dir = "absent"
    /\ pc = "format"
    /\ words_per_episode = 0
    /\ Untouched

NameNext == FormatNames

NameSpec == NameInit /\ [][NameNext]_vars

(***************************************************************************)
(* Properties of split_text (SplitSpec)                                    *)
(***************************************************************************)
\* split_text has returned.
SplitReturned == pc = "mkdir"

EpisodeTexts == [k \in 1..Len(episodes) |-> episodes[k][2]]

WordCount(t) == Len(split(t))

CeilDiv(n, w) == (n + w - 1) \div w

\* C1: for a non-empty text and a positive words_per_episode, the texts of the
\* returned chunks joined in index order with single spaces are exactly the
\* words of the input joined with single spaces, and split back into the same
\* word sequence: no word is dropped, duplicated or reordered.
C1_Lossless ==
    (SplitReturned /\ text # <<>> /\ words_per_episode > 0) =>
        /\ join(EpisodeTexts) = join(split(text))
        /\ split(join(EpisodeTexts)) = split(text)

\* A text with irregular whitespace has been split into three chunks.
C1_Witness ==
    /\ SplitReturned
    /\ words_per_episode > 0
    /\ Len(episodes) = 3
    /\ Len(join(EpisodeTexts)) < Len(text)

\* C6: n >= 1 words and a positive words_per_episode w give exactly ceil(n/w)
\* chunks, each but the last of exactly w words, the last of 1..w words, none
\* empty; 200 words at one minute (w = 180) give two chunks of 180 and 20 words.
C6_ChunkSizes ==
    LET n == WordCount(text)
        w == words_per_episode
        k == Len(episodes)
    IN  (SplitReturned /\ n >= 1 /\ w > 0) =>
            /\ k = CeilDiv(n, w)
            /\ \A j \in 1..(k - 1) : WordCount(episodes[j][2]) = w
            /\ WordCount(episodes[k][2]) \in 1..w
            /\ \A j \in 1..k : episodes[j][2] # <<>>
            /\ (w >= n) => (k = 1 /\ split(episodes[1][2]) = split(text))
            /\ (n = 200 /\ w = 1 * WordsPerMinute) =>
                    /\ w = 180
                    /\ k = 2
                    /\ WordCount(episodes[1][2]) = 180
                    /\ WordCount(episodes[2][2]) = 20

\* 200 words have been split at one minute per episode.
C6_Witness ==
    /\ SplitReturned
    /\ WordCount(text) = 200
    /\ words_per_episode = 1 * WordsPerMinute
    /\ Len(episodes) = 2

\* C7: for any input and positive words_per_episode the indices of the chunks
\* split_text returns are 1, 2, ..., k in that order.
C7_ContiguousIndices ==
    (SplitReturned /\ words_per_episode > 0) =>
        \A j \in 1..Len(episodes) : episodes[j][1] = j

\* Three chunks have been returned.
C7_Witness ==
    /\ SplitReturned
    /\ words_per_episode > 0
    /\ Len(episodes) = 3

(***************************************************************************)
(* Properties of the file name (NameSpec)                                  *)
(***************************************************************************)
DigitValue(c) == CHOOSE d \in 0..9 : DigitChar(d) = c

Digits == {DigitChar(d) : d \in 0..9}

\* The number a sequence of decimal digits denotes.
RECURSIVE DecimalValue(_)
DecimalValue(ds) ==
    IF ds = <<>> THEN 0
    ELSE 10 * DecimalValue(SubSeq(ds, 1, Len(ds) - 1)) + DigitValue(ds[Len(ds)])

\* name is "episode_", then i in decimal zero-padded to at least two digits,
\* then ".mp3".
IsEpisodeName(name, i) ==
    LET ds == SubSeq(name, 2, Len(name) - 1)
    IN  /\ Len(name) >= 4
        /\ name[1] = "episode_"
        /\ name[Len(name)] = ".mp3"
        /\ \A k \in 1..Len(ds) : ds[k] \in Digits
        /\ DecimalValue(ds) = i
        /\ Len(ds) >= 2
        /\ (Len(ds) > 2) => ds[1] # "0"

\* C8: the file name of chunk index i is "episode_" + i zero-padded to at least
\* two digits + ".mp3"; 1, 9, 10, 99, 100 give 01, 09, 10, 99, 100; different
\* indices give different names.
C8_FileName ==
    (pc = "formatted") =>
        LET i == name_idx[1]
            j == name_idx[2]
        IN  /\ IsEpisodeName(name_out[1], i)
            /\ IsEpisodeName(name_out[2], j)
            /\ (i = 1) => name_out[1] = <<"episode_", "0", "1", ".mp3">>
            /\ (i = 9) => name_out[1] = <<"episode_", "0", "9", ".mp3">>
            /\ (i = 10) => name_out[1] = <<"episode_", "1", "0", ".mp3">>
            /\ (i = 99) => name_out[1] = <<"episode_", "9", "9", ".mp3">>
            /\ (i = 100) => name_out[1] = <<"episode_", "1", "0", "0", ".mp3">>
            /\ (i # j) => name_out[1] # name_out[2]

\* The names of 9 and 100 have been formatted.
C8_Witness ==
    /\ pc = "formatted"
    /\ name_idx = <<9, 100>>
    /\ name_out[1] # name_out[2]

(***************************************************************************)
(* Properties of convert_pdf (Spec, FairSpec)                              *)
(***************************************************************************)
IsWhitespaceOnly(t) == \A p \in DOMAIN t : t[p] \in Whitespace

CompletedIdx == {completed[k][1] : k \in 1..Len(completed)}

FailedIdx == {completed[k][1] : k \in {j \in 1..Len(completed) : completed[j][2] = "failed"}}

IsTtsLine(l) == l[1] = "[tts] Generating"

TtsLines == SelectSeq(log, IsTtsLine)

IsShowInfo(m) == m[1] = "showinfo"

\* C2 as stated: a chunk's synthesis failure does not halt the run; every
\* chunk is still attempted, and the files of the chunks that succeeded exist.
C2_FailureDoesNotHaltRun ==
    (pc = "done" /\ FailedIdx # {}) =>
        /\ \A i \in 1..Len(episodes) : i \in CompletedIdx
        /\ files = {OutFileName(i) : i \in (1..Len(episodes)) \ FailedIdx}

\* C3 as stated: with an engine that is neither "edge-tts" nor "gtts" no output
\* directory or file is created, no chunk start is logged and no success
\* summary is shown.
C3_UnknownEngineRejected ==
    (engine \notin KnownEngines) =>
        /\ ~mkdir_called
        /\ files = {}
        /\ TtsLines = <<>>
        /\ SelectSeq(msgs, IsShowInfo) = <<>>

\* C4 as stated: with minutes <= 0 the run is rejected before split_text is
\* called and before any filesystem activity.
C4_NonPositiveMinutesRejected ==
    (minutes <= 0) => (~split_called /\ ~mkdir_called)

\* extract_text has returned the text.
ExtractReturned ==
    /\ pc # "start"
    /\ \A k \in 1..Len(msgs) : msgs[k] # <<"showerror", "extract_text failed">>

\* C5: when the extracted text is empty or whitespace-only, the run is at the
\* test of the text or has ended; the output directory is not created,
\* split_text is not called, no backend is invoked, and the run ends with the
\* no-text error shown exactly once and nothing else shown.
C5_NoTextReportedOnce ==
    (ExtractReturned /\ IsWhitespaceOnly(text)) =>
        /\ pc \in {"check", "done"}
        /\ ~mkdir_called
        /\ ~split_called
        /\ started = <<>>
        /\ files = {}
        /\ (pc = "check") => msgs = <<>>
        /\ (pc = "done") => msgs = << <<"showerror", NoTextMessage>> >>

\* A whitespace-only, non-empty text has been reported.
C5_Witness ==
    /\ text # <<>>
    /\ IsWhitespaceOnly(text)
    /\ pc = "done"
    /\ msgs = << <<"showerror", NoTextMessage>> >>

\* C9: chunks are synthesized one at a time in increasing index order: at most
\* one backend call is in progress, the calls begin in the order 1, 2, ...,
\* every call but the last begun has ended, and the per-chunk log lines are in
\* chunk index order.
C9_Sequential ==
    /\ Cardinality(inflight) <= 1
    /\ \A k \in 1..Len(started) : started[k] = k
    /\ \A k \in 1..(Len(started) - 1) : started[k] \in CompletedIdx
    /\ inflight = {started[k] : k \in 1..Len(started)} \ CompletedIdx
    /\ \A k \in 1..Len(completed) : completed[k][1] = k
    /\ \A k \in 1..Len(TtsLines) : TtsLines[k] = <<"[tts] Generating", OutFileName(k)>>

\* The third chunk's call is in progress after the first two have ended.
C9_Witness ==
    /\ pc = "tts"
    /\ inflight = {3}
    /\ Len(completed) = 2
    /\ Len(TtsLines) = 3

\* C10: a run with positive minutes never shows more than one notification and
\* eventually ends with exactly one: the summary or an error.
C10_OneFinalNotification ==
    /\ [](minutes > 0 => Len(msgs) <= 1)
    /\ (minutes > 0) ~> (pc = "done" /\ Len(msgs) = 1)

\* A run over several chunks has ended with the summary alone.
C10_Witness ==
    /\ minutes > 0
    /\ pc = "done"
    /\ Len(episodes) >= 2
    /\ Len(msgs) = 1
    /\ IsShowInfo(msgs[1])

====
